---- MODULE Spec2Model ----
(***************************************************************************)
(* console-buddy: the tool-augmented conversation engine                   *)
(* (gemini.ContinueConversation), the per-turn channel between the engine  *)
(* goroutine and the Bubble Tea program (tui.newConversationStream), and   *)
(* the UI event loop (tui.Model.Update).                                   *)
(*                                                                         *)
(* A Go string is a sequence of tokens: "" is <<>>, concatenation is \o.   *)
(***************************************************************************)
EXTENDS Integers, Sequences, FiniteSets, Bags, TLC

\* ------------------------------------------------------------------ bounds
\* accepted submits (turns) per session
MaxTurns == 2
\* entries of the conversation list a session finds in its CB.hist file
MaxLoaded == 1
\* events of a session the environment chooses freely: a streamed response,
\* the response a stream repeats on every read, the script of a stream, the
\* expiry of a deadline during a read, a failed save, a key typed into the
\* input box. Besides them a stream ends or breaks, and saves succeed; a
\* stream gives one freely chosen response at most
MaxItems == 1
\* characters the text input holds
MaxInputLen == 1

\* ------------------------------------------------------- program constants
maxLoopIterations == 15

NoError == "nil"
FallbackReply == <<"The model finished its work without providing a direct response.">>
AllowedCommands == {"go", "git", "ls", "cat", "echo"}

\* ---------------------------------------------------------------- messages
NoMsg == [type |-> "none"]
StreamMsg(title, content) == [type |-> "StreamMsg", Title |-> title, Content |-> content]
ErrMsg(err) == [type |-> "ErrMsg", err |-> err]
SuccessMsg(reply) == [type |-> "SuccessMsg", reply |-> reply]
finalMsg == [type |-> "finalMsg"]
startConversationMsg(input) == [type |-> "startConversationMsg", input |-> input]

\* ------------------------------------------------------------------- tools
\* A tool argument value is [str |-> s] (a JSON string) or [num |-> n].
IsStr(args, k) == k \in DOMAIN args /\ "str" \in DOMAIN args[k]

Result(output, err) == [output |-> output, err |-> err]

\* strings.Fields(strings.TrimSpace(command)) on the commands the model sends
Fields(command) ==
    CASE command = "ls" -> <<"ls">>
      [] command = "LS" -> <<"LS">>
      [] command = " ls -l " -> <<"ls", "-l">>
      [] command = "sudo ls" -> <<"sudo", "ls">>
      [] OTHER -> <<>>

\* strings.ToLower on the first words of those commands
ToLower(word) == IF word = "LS" THEN "ls" ELSE word

\* commander.ExecuteCommand. os is what the spawned process does: "ok",
\* "empty" (no output) or "fail" (non-zero exit).
ExecuteCommand(command, allowedCommands, os) ==
    IF Fields(command) = <<>> THEN Result(<<>>, "empty command")
    ELSE IF ToLower(Head(Fields(command))) \notin allowedCommands
         THEN Result(<<>>, "command is not allowed")
    ELSE IF os = "fail"
         THEN Result(<<"stderr">>, "command execution failed")
    ELSE IF os = "empty" THEN Result(<<>>, NoError)
    ELSE Result(<<"stdout">>, NoError)

\* the names of the switch in ToolExecutor.Execute
Registry ==
    {"execute_shell_command", "create_file", "update_file", "read_file",
     "delete_file", "list_files", "analyze_project", "generate_code",
     "install_dependencies", "run_tests", "build_project", "generate_web_file"}

\* the arguments a tool requires to be strings: the Required lists of the
\* declarations, which are the arguments the handlers assert
RequiredArgs(name) ==
    CASE name = "execute_shell_command" -> {"command"}
      [] name \in {"create_file", "update_file"} -> {"path", "content"}
      [] name \in {"read_file", "delete_file", "list_files"} -> {"path"}
      [] name = "analyze_project" -> {"path"}
      [] name = "generate_code" -> {"type", "name", "description"}
      [] name = "generate_web_file" -> {"file_type", "filename"}
      [] OTHER -> {}

\* analyzeProject and the handlers that start with it (the executor of a
\* call holds no project yet): os is the outcome of the analysis and of
\* what the handler does with it
ProjectTool(fc, os) ==
    IF \E k \in RequiredArgs(fc.Name) : ~IsStr(fc.Args, k)
    THEN Result(<<>>, "invalid or missing arguments")
    ELSE IF os = "fail" THEN Result(<<>>, "project analysis failed")
    ELSE Result(<<"project: ", fc.Name>>, NoError)

\* NewToolExecutor: nothing is cached (a field is TRUE when it is not nil)
NewToolExecutor == [projectInfo |-> FALSE, generator |-> FALSE]

\* an analysis that caches the project without a generator for it
analyzeProjectNoGenerator(e, os) ==
    IF os = "fail" THEN e ELSE [e EXCEPT !.projectInfo = TRUE]

\* analyzeProject, lines 281-283: what a successful analysis caches
analyzeProject(e, os) ==
    IF os = "fail" THEN e ELSE [projectInfo |-> TRUE, generator |-> TRUE]

\* the executor after Execute(fc): analyze_project analyses, the generating
\* handlers analyse when no generator is cached, the others when no project is
Cached(e, fc, os) ==
    CASE fc.Name = "analyze_project" ->
           IF IsStr(fc.Args, "path") THEN analyzeProject(e, os) ELSE e
      [] fc.Name \in {"generate_code", "generate_web_file"} ->
           IF \E k \in RequiredArgs(fc.Name) : ~IsStr(fc.Args, k) THEN e
           ELSE IF ~e.generator THEN analyzeProject(e, os) ELSE e
      [] fc.Name \in {"install_dependencies", "run_tests", "build_project"} ->
           IF ~e.projectInfo THEN analyzeProject(e, os) ELSE e
      [] OTHER -> e

\* handlers that act before they look at their arguments: the file is
\* written, the project analysed, whatever the call holds
EffectsBeforeChecks(fc, os) ==
    CASE fc.Name \in {"create_file", "update_file"} -> {"write"}
      [] fc.Name \in {"generate_code", "generate_web_file"} -> {"projectInfo"}
      [] OTHER -> {}

\* a handler that writes a file for a name it does not know
EffectsDefaultWrites(fc, os) ==
    IF fc.Name \notin Registry THEN {"write"} ELSE {}

\* what a call of ToolExecutor.Execute does besides returning: "spawn" a
\* process (ExecuteCommand reaches exec), "write" or "remove" a file, cache
\* the "projectInfo" in the executor. os.WriteFile on a path without a file
\* (os = "absent") is a "create", on the path of a file a "replace"
Effects(fc, os) ==
    CASE fc.Name = "execute_shell_command" ->
           IF IsStr(fc.Args, "command")
              /\ Fields(fc.Args["command"].str) # <<>>
              /\ ToLower(Head(Fields(fc.Args["command"].str))) \in AllowedCommands
           THEN {"spawn"} ELSE {}
      [] fc.Name \in {"create_file", "update_file"} ->
           IF IsStr(fc.Args, "path") /\ IsStr(fc.Args, "content") /\ os # "fail"
           THEN {"write", IF os = "absent" THEN "create" ELSE "replace"}
           ELSE {}
      [] fc.Name = "delete_file" ->
           IF IsStr(fc.Args, "path") /\ os # "fail" THEN {"remove"} ELSE {}
      [] fc.Name \in {"read_file", "list_files"} -> {}
      [] fc.Name \in Registry ->
           IF (\E k \in RequiredArgs(fc.Name) : ~IsStr(fc.Args, k)) \/ os = "fail"
           THEN {}
           ELSE {"projectInfo"}
                \cup (IF fc.Name = "generate_web_file" THEN {"write"} ELSE {})
                \cup (IF fc.Name \in {"install_dependencies", "run_tests",
                                      "build_project"} THEN {"spawn"} ELSE {})
      [] OTHER -> {}

\* ToolExecutor.Execute. os is the outcome of the one system call the
\* handler makes: "ok", "empty" (an empty file or directory, a silent
\* command), "fail", "absent" (as "ok", on a path where no file was), or
\* "slow" (as "ok", but only after the deadline of the call has passed:
\* Execute is not given the context).
Execute(fc, os) ==
    CASE fc.Name = "execute_shell_command" ->
           IF IsStr(fc.Args, "command")
           THEN ExecuteCommand(fc.Args["command"].str, AllowedCommands, os)
           ELSE Result(<<>>, "invalid or missing 'command' argument")
      [] fc.Name \in {"create_file", "update_file"} ->
           IF ~IsStr(fc.Args, "path") \/ ~IsStr(fc.Args, "content")
           THEN Result(<<>>, "invalid arguments")
           ELSE IF os = "fail" THEN Result(<<>>, "write failed")
           ELSE Result(<<"File '", fc.Args["path"].str, "' was ", fc.Name, "d successfully.">>, NoError)
      [] fc.Name = "read_file" ->
           IF IsStr(fc.Args, "path")
           THEN IF os = "fail" THEN Result(<<>>, "read failed")
                ELSE IF os = "empty" THEN Result(<<>>, NoError)
                ELSE Result(<<"content">>, NoError)
           ELSE Result(<<>>, "invalid or missing 'path' argument")
      [] fc.Name = "delete_file" ->
           IF IsStr(fc.Args, "path")
           THEN IF os = "fail" THEN Result(<<>>, "remove failed")
                ELSE Result(<<"File deleted successfully.">>, NoError)
           ELSE Result(<<>>, "invalid or missing 'path' argument")
      [] fc.Name = "list_files" ->
           IF IsStr(fc.Args, "path")
           THEN IF os = "fail" THEN Result(<<>>, "readdir failed")
                ELSE IF os = "empty" THEN Result(<<>>, NoError)
                ELSE Result(<<"a.txt", "\n", "b.txt">>, NoError)
           ELSE Result(<<>>, "invalid or missing 'path' argument")
      [] fc.Name \in Registry -> ProjectTool(fc, os)
      [] OTHER -> Result(<<>>, "unknown function call")

\* a response that does not say which tool it answers
FunctionResponseUnlabelled(name, result) ==
    [Name |-> "", Response |-> [output |-> result.output]]

\* genai.FunctionResponse{Name, Response: {"output": output}}
FunctionResponse(name, result) ==
    [Name |-> name, Response |-> [output |-> result.output]]

\* json.Marshal(p.Args) of line 78, for the arguments the model sends
Marshal(args) ==
    IF "command" \in DOMAIN args
    THEN IF args["command"].str = "LS" THEN "{\"command\":\"LS\"}"
         ELSE "{\"command\":\"ls\"}"
    ELSE IF "type" \in DOMAIN args
         THEN "{\"description\":\"d\",\"type\":\"function\"}"
    ELSE IF "content" \in DOMAIN args
         THEN IF IsStr(args, "content") THEN "{\"content\":\"c\",\"path\":\"x.txt\"}"
              ELSE "{\"content\":1,\"path\":\"x.txt\"}"
    ELSE IF args["path"].str = "." THEN "{\"path\":\".\"}"
    ELSE "{\"path\":\"x.txt\"}"

\* ------------------------------------------------------------ buildHistory
\* genai.Content{Parts: []genai.Part{genai.Text(text)}, Role: role}
Content(role, text) == [Role |-> role, Parts |-> <<text>>]

\* the loop of lines 108-116 from entry i on (entries count from 1 here)
RECURSIVE buildHistoryFrom(_, _)
buildHistoryFrom(history, i) ==
    IF i > Len(history) THEN <<>>
    ELSE LET userMessage == history[i]
             modelMessage == IF i + 1 <= Len(history) THEN history[i + 1] ELSE <<>>
         IN <<Content("user", userMessage), Content("model", modelMessage)>>
            \o buildHistoryFrom(history, i + 2)

\* a pairing that leaves out a last entry without a reply
buildHistoryDropsOdd(history) ==
    buildHistoryFrom(SubSeq(history, 1, Len(history) - (Len(history) % 2)), 1)

\* buildHistory (lines 102-118); nil is the empty sequence
buildHistory(history) ==
    IF Len(history) = 0 THEN <<>> ELSE buildHistoryFrom(history, 1)

\* ------------------------------------------------------ the model's stream
Text(s) == [kind |-> "Text", text |-> s]
FunctionCall(name, args, os) ==
    [kind |-> "FunctionCall", call |-> [Name |-> name, Args |-> args], os |-> os]

ListFiles(os) == FunctionCall("list_files", [path |-> [str |-> "."]], os)

\* the parts of one streamed response; <<>> is a response without content,
\* Text(<<>>) a text part that is the empty string
FreeResponses ==
    { <<>>,
      <<Text(<<"a">>)>>,
      <<Text(<<"b">>)>>,
      <<Text(<<>>)>>,
      <<ListFiles("ok")>>,
      <<ListFiles("empty")>>,
      <<FunctionCall("bogus_tool", [path |-> [str |-> "."]], "ok")>>,
      <<FunctionCall("create_file", [path |-> [str |-> "x.txt"]], "ok")>>,
      <<FunctionCall("update_file", [path |-> [str |-> "x.txt"],
                                     content |-> [num |-> 1]], "ok")>>,
      <<FunctionCall("update_file", [path |-> [str |-> "x.txt"],
                                     content |-> [str |-> "c"]], "absent")>>,
      <<FunctionCall("create_file", [path |-> [str |-> "x.txt"],
                                     content |-> [str |-> "c"]], "ok")>>,
      <<FunctionCall("generate_code", [type |-> [str |-> "function"],
                                       description |-> [str |-> "d"]], "ok")>>,
      <<FunctionCall("execute_shell_command", [command |-> [str |-> "ls"]], "fail")>>,
      <<FunctionCall("execute_shell_command", [command |-> [str |-> "LS"]], "fail")>>,
      <<FunctionCall("analyze_project", [path |-> [str |-> "."]], "ok"),
        FunctionCall("build_project", [path |-> [str |-> "."]], "ok")>>,
      <<ListFiles("slow")>>,
      <<Text(<<"a">>), ListFiles("slow")>> }

\* the responses of a model that requests tool calls on every read; the
\* stream of the one that also repeats its text never ends by itself
Chatty == <<Text(<<"a">>), ListFiles("ok")>>
\* a response that carries two tool calls
Double == <<ListFiles("ok"), FunctionCall("read_file", [path |-> [str |-> "."]], "empty")>>
StormResponses == { Chatty, Double }

\* streams that give their responses in order and then end: a list_files
\* call answered, after the tool's response, by the text "Done."
Scripts == { << <<ListFiles("ok")>>, <<Text(<<"Done.">>)>> >> }

\* ------------------------------------------------------------------- state
VARIABLES
    Loading,               \* Model.Loading
    TextInput,             \* Model.TextInput.Value()
    ConversationHistory,   \* Model.ConversationHistory
    currentResponse,       \* Model.currentResponse (the display buffer)
    stream,                \* Model.stream: the number of its goroutine, 0 = nil
    savedConversations,    \* SessionData.Conversations in the CB.hist file
    SystemInstruction,     \* model.SystemInstruction is set
    pending,               \* messages of finished commands, not yet handled by Update
    waiting,               \* the waitForNextMsg commands blocked in <-s.ch: a bag of channels
    tasks,                 \* the goroutines of newConversationStream, in spawn order
    turns,                 \* submits accepted so far
    itemsUsed,             \* freely chosen environment events so far
    env,                   \* os.Getenv("CONSOLE_AI_HUMOR_LEVEL"), "" = unset
    HumorLevel,            \* Model.Config.HumorLevel
    ProjectInfo,           \* Model.ProjectInfo, "nil" = none
    savedProjectInfo,      \* SessionData.ProjectInfo in the CB.hist file
    savedHumorLevel,       \* SessionData.HumorLevel in the CB.hist file
    quit,                  \* Update has returned tea.Quit
    ShowAll                \* Model.Help.ShowAll

vars == <<Loading, TextInput, ConversationHistory, currentResponse, stream,
          savedConversations, SystemInstruction, pending, waiting, tasks,
          turns, itemsUsed, env, HumorLevel, ProjectInfo, savedProjectInfo,
          savedHumorLevel, quit, ShowAll>>

\* what main sets before the program runs
configVars == <<env, HumorLevel, ProjectInfo>>
\* the rest of the session a save writes
fileVars == <<savedProjectInfo, savedHumorLevel>>
\* what only a key changes
keyVars == <<quit, ShowAll>>

uiVars == <<Loading, TextInput, ConversationHistory, currentResponse, stream,
            savedConversations, pending, waiting, turns, configVars, fileVars,
            keyVars>>

\* ------------------------------------------------------------------ engine
\* The locals of one ContinueConversation call and of the goroutine around
\* it. contents is cs.History of line 33; taken counts the StreamMsg sends of
\* the call that a receive has met; executor is toolExecutor of line 50.
\* sending is the message of a channel send the goroutine is blocked in.
\* nextCalls, toolCalls, toolOutputs and responses count the iter.Next calls,
\* the Execute calls, the "Tool Output" events and the tool responses of the
\* turn; exit tells how the loop was left; expiredIn tells where the call was
\* when its deadline passed; sent lists the terminal messages taken
\* from the channel; emitted lists the stepCallback calls of the turn and
\* effects what its tool handlers did besides returning; free,
\* repeat and scripted tell what the model's stream has been: freely chosen
\* responses, one response repeated, or the responses of a script.
NoCall == [Name |-> "", Args |-> [path |-> [str |-> ""]]]
NoResult == Result(<<>>, NoError)
NoResponse == [Name |-> "", Response |-> [output |-> <<>>]]

NewTask(history, input) ==
    [pc |-> "start", history |-> history, input |-> input,
     i |-> 0, responseBuilder |-> <<>>, lastTextChunk |-> <<>>,
     hasResponded |-> FALSE, parts |-> <<>>, call |-> NoCall, os |-> "ok",
     result |-> NoResult, response |-> NoResponse,
     expired |-> FALSE, expiredIn |-> "", iterDead |-> FALSE,
     free |-> FALSE, repeat |-> <<>>,
     scripted |-> FALSE, script |-> <<>>,
     effects |-> {}, sending |-> NoMsg, emitted |-> <<>>, closed |-> FALSE,
     reply |-> <<>>, err |-> NoError, exit |-> "",
     nextCalls |-> 0, toolCalls |-> 0, toolOutputs |-> 0, responses |-> 0,
     sent |-> <<>>, contents |-> <<>>, taken |-> 0,
     executor |-> NewToolExecutor]

\* tui.go lines 313-315: the callback sends a StreamMsg on the channel
stepCallback(r, title, content) ==
    [r EXCEPT !.sending = StreamMsg(title, content),
              !.emitted = Append(@, StreamMsg(title, content))]

\* a loop over the parts that reports every text part, a repeated one too
ProcessPartsAlwaysEmits(r) ==
    IF r.parts = <<>>
    THEN [r EXCEPT !.i = r.i + 1, !.pc = "loop"]
    ELSE LET p == Head(r.parts)
             rest == Tail(r.parts)
         IN IF p.kind = "Text"
            THEN [stepCallback(r, "Response", p.text) EXCEPT
                            !.parts = rest,
                            !.responseBuilder = @ \o p.text,
                            !.hasResponded = TRUE,
                            !.lastTextChunk = p.text,
                            !.pc = "parts"]
            ELSE [stepCallback(r, "Tool Call",
                                  <<"\nExecuting: ", p.call.Name,
                                    " with args: ", Marshal(p.call.Args)>>) EXCEPT
                           !.parts = rest, !.call = p.call, !.os = p.os,
                           !.pc = "exec"]

\* lines 65-91: the parts of the current response, up to the next channel
\* send; at the end of the parts the loop counter advances
RECURSIVE ProcessParts(_)
ProcessParts(r) ==
    IF r.parts = <<>>
    THEN [r EXCEPT !.i = r.i + 1, !.pc = "loop"]
    ELSE LET p == Head(r.parts)
             rest == Tail(r.parts)
         IN IF p.kind = "Text"
            THEN LET r1 == [r EXCEPT !.parts = rest,
                                     !.responseBuilder = @ \o p.text,
                                     !.hasResponded = TRUE]
                 IN IF p.text # r.lastTextChunk
                    THEN [stepCallback(r1, "Response", p.text) EXCEPT
                                    !.lastTextChunk = p.text,
                                    !.pc = "parts"]
                    ELSE ProcessParts(r1)
            ELSE [stepCallback(r, "Tool Call",
                                  <<"\nExecuting: ", p.call.Name,
                                    " with args: ", Marshal(p.call.Args)>>) EXCEPT
                           !.parts = rest, !.call = p.call, !.os = p.os,
                           !.pc = "exec"]

\* lines 29-42: context, chat session, system instruction, "Thinking..."
Started(r) ==
    [stepCallback(r, "Thinking...", <<>>) EXCEPT
        !.contents = buildHistory(r.history), !.pc = "loop"]

\* lines 93-98
Returned(r) ==
    [r EXCEPT !.reply = IF r.hasResponded THEN r.responseBuilder ELSE FallbackReply,
              !.err = NoError, !.pc = "returned"]

\* line 53, err == iterator.Done: break
NextDone(r) ==
    Returned([r EXCEPT !.nextCalls = @ + 1, !.exit = "done"])

\* fmt.Errorf("stream error: %w", err)
StreamError(e) ==
    IF e = "deadline" THEN "stream error: context deadline exceeded"
    ELSE "stream error: transport"

\* a read error that is skipped like an empty response: the loop goes on
NextErrorRetry(r, e) ==
    [r EXCEPT !.nextCalls = @ + 1, !.exit = e, !.i = r.i + 1, !.pc = "loop"]

\* line 53, another error: return "", fmt.Errorf("stream error: %w", err)
NextError(r, e) ==
    [r EXCEPT !.nextCalls = @ + 1, !.exit = e,
              !.reply = <<>>, !.err = StreamError(e), !.pc = "returned"]

\* line 53, a response: its parts are processed
NextResponse(r, parts) ==
    ProcessParts([r EXCEPT !.nextCalls = @ + 1, !.parts = parts])

\* an exhausted loop that is reported as a failure of the turn
LoopExhaustedError(r) ==
    [r EXCEPT !.exit = "bound", !.reply = <<>>,
              !.err = "iteration limit reached", !.pc = "returned"]

\* line 52: i reached maxLoopIterations
LoopExhausted(r) ==
    Returned([r EXCEPT !.exit = "bound"])

\* a tool failure that ends the call with the tool's error
ExecutedAbort(r) ==
    LET res == Execute(r.call, r.os)
    IN IF res.err # NoError
       THEN [r EXCEPT !.result = res, !.toolCalls = @ + 1, !.exit = "tool",
                      !.reply = <<>>, !.err = res.err, !.pc = "returned"]
       ELSE [stepCallback(r, "Tool Output", res.output) EXCEPT
                      !.result = res, !.toolCalls = @ + 1, !.toolOutputs = @ + 1,
                      !.effects = @ \cup Effects(r.call, r.os),
                      !.executor = Cached(@, r.call, r.os),
                      !.expired = @ \/ r.os = "slow",
                      !.expiredIn = IF r.os = "slow" /\ ~r.expired THEN "exec" ELSE @,
                      !.pc = "respond"]

\* lines 80-84: Execute, then "Tool Error" when it failed, else "Tool Output";
\* a slow handler returns after the deadline of line 29 has passed
Executed(r) ==
    LET res == Execute(r.call, r.os)
    IN IF res.err # NoError
       THEN [stepCallback(r, "Tool Error", <<res.err>>) EXCEPT
                      !.result = res, !.toolCalls = @ + 1,
                      !.effects = @ \cup Effects(r.call, r.os),
                      !.executor = Cached(@, r.call, r.os),
                      !.pc = "output"]
       ELSE [stepCallback(r, "Tool Output", res.output) EXCEPT
                      !.result = res, !.toolCalls = @ + 1, !.toolOutputs = @ + 1,
                      !.effects = @ \cup Effects(r.call, r.os),
                      !.executor = Cached(@, r.call, r.os),
                      !.expired = @ \/ r.os = "slow",
                      !.expiredIn = IF r.os = "slow" /\ ~r.expired THEN "exec" ELSE @,
                      !.pc = "respond"]

\* line 84 after a "Tool Error"
ToolOutput(r) ==
    [stepCallback(r, "Tool Output", r.result.output) EXCEPT
              !.toolOutputs = @ + 1, !.pc = "respond"]

\* lines 86-89: the tool's response opens the next stream, then the next part
Responded(r) ==
    ProcessParts([r EXCEPT !.response = FunctionResponse(r.call.Name, r.result),
                           !.responses = @ + 1,
                           !.iterDead = r.expired])

\* a goroutine without the return of line 319: after ErrMsg it goes on to
\* the sends of a completed turn
FinishedNoReturn(r) ==
    [NewTask(r.history, r.input) EXCEPT
        !.err = r.err,
        !.sending = IF r.err # NoError THEN ErrMsg(r.err) ELSE SuccessMsg(r.reply),
        !.pc = "final"]

\* tui.go lines 313-323: the call has returned, its locals are gone, and the
\* goroutine sends what it returned (the error stays on record)
Finished(r) ==
    [NewTask(r.history, r.input) EXCEPT
        !.err = r.err,
        !.sending = IF r.err # NoError THEN ErrMsg(r.err) ELSE SuccessMsg(r.reply),
        !.pc = IF r.err # NoError THEN "close" ELSE "final"]

\* a goroutine that closes the channel before its last send
FinalAfterClose(r) ==
    [r EXCEPT !.sending = finalMsg, !.closed = TRUE, !.pc = "close"]

\* tui.go line 323
Final(r) == [r EXCEPT !.sending = finalMsg, !.pc = "close"]

\* tui.go line 312: the channel is closed and the goroutine is gone; the
\* error it returned and what it sent stay on record
Closed(r) ==
    [NewTask(<<>>, <<>>) EXCEPT
        !.err = r.err, !.sent = r.sent, !.closed = TRUE, !.pc = "done"]

\* ---------------------------------------------------------- engine actions
Blocked(t) == tasks[t].sending # NoMsg

Step(t, r) == tasks' = [tasks EXCEPT ![t] = r]

\* what iter.Next can return besides a response
ReadErrors(r) ==
    IF r.iterDead THEN {"deadline"}
    ELSE IF r.expired THEN {"transport", "deadline"}
    ELSE {"transport"}

\* a freely chosen response is possible
CanChoose == itemsUsed < MaxItems

EngineStart(t) ==
    /\ tasks[t].pc = "start"
    /\ Step(t, Started(tasks[t]))
    /\ SystemInstruction' = (SystemInstruction \/ Len(tasks[t].history) = 0)
    /\ UNCHANGED <<uiVars, itemsUsed>>

\* a callback that does not wait for its send to be met (a buffered channel)
AtLoopHeadBuffered(t) == tasks[t].pc = "loop"

\* the for statement is reached when the callback before it has returned
AtLoopHead(t) == tasks[t].pc = "loop" /\ ~Blocked(t)

\* a loop guard that lets the counter reach the bound: i <= maxLoopIterations
LoopRunsOffByOne(r) == r.i <= maxLoopIterations

\* line 52: i < maxLoopIterations
LoopRuns(r) == r.i < maxLoopIterations

EngineNextDone(t) ==
    /\ AtLoopHead(t)
    /\ LoopRuns(tasks[t])
    /\ ~tasks[t].iterDead
    /\ tasks[t].repeat # Chatty
    /\ tasks[t].script = <<>>
    /\ Step(t, NextDone(tasks[t]))
    /\ UNCHANGED <<uiVars, SystemInstruction, itemsUsed>>

EngineNextError(t) ==
    /\ AtLoopHead(t)
    /\ LoopRuns(tasks[t])
    /\ \E e \in ReadErrors(tasks[t]) : Step(t, NextError(tasks[t], e))
    /\ UNCHANGED <<uiVars, SystemInstruction, itemsUsed>>

EngineNextResponse(t) ==
    /\ AtLoopHead(t)
    /\ LoopRuns(tasks[t])
    /\ ~tasks[t].iterDead
    /\ \/ /\ CanChoose
             /\ tasks[t].repeat = <<>>
             /\ ~tasks[t].scripted
             /\ ~tasks[t].free
             /\ \E parts \in FreeResponses :
                   Step(t, [NextResponse(tasks[t], parts) EXCEPT !.free = TRUE])
             /\ itemsUsed' = itemsUsed + 1
          \/ /\ ~tasks[t].free
             /\ tasks[t].repeat = <<>>
             /\ ~tasks[t].scripted
             /\ tasks[t].nextCalls = 0
             /\ CanChoose
             /\ \E sc \in Scripts :
                   Step(t, [NextResponse(tasks[t], Head(sc)) EXCEPT
                              !.scripted = TRUE, !.script = Tail(sc)])
             /\ itemsUsed' = itemsUsed + 1
          \/ /\ tasks[t].scripted
             /\ tasks[t].script # <<>>
             /\ Step(t, [NextResponse(tasks[t], Head(tasks[t].script)) EXCEPT
                            !.script = Tail(tasks[t].script)])
             /\ UNCHANGED itemsUsed
          \/ /\ ~tasks[t].free
             /\ ~tasks[t].scripted
             /\ tasks[t].repeat = <<>>
             /\ CanChoose
             /\ \E parts \in StormResponses :
                   Step(t, [NextResponse(tasks[t], parts) EXCEPT !.repeat = parts])
             /\ itemsUsed' = itemsUsed + 1
          \/ /\ tasks[t].repeat # <<>>
             /\ Step(t, NextResponse(tasks[t], tasks[t].repeat))
             /\ UNCHANGED itemsUsed
    /\ UNCHANGED <<uiVars, SystemInstruction>>

EngineLoopExhausted(t) ==
    /\ AtLoopHead(t)
    /\ ~LoopRuns(tasks[t])
    /\ Step(t, LoopExhausted(tasks[t]))
    /\ UNCHANGED <<uiVars, SystemInstruction, itemsUsed>>

EngineContinueParts(t) ==
    /\ tasks[t].pc = "parts" /\ ~Blocked(t)
    /\ Step(t, ProcessParts(tasks[t]))
    /\ UNCHANGED <<uiVars, SystemInstruction, itemsUsed>>

EngineExecute(t) ==
    /\ tasks[t].pc = "exec" /\ ~Blocked(t)
    /\ Step(t, Executed(tasks[t]))
    /\ UNCHANGED <<uiVars, SystemInstruction, itemsUsed>>

EngineToolOutput(t) ==
    /\ tasks[t].pc = "output" /\ ~Blocked(t)
    /\ Step(t, ToolOutput(tasks[t]))
    /\ UNCHANGED <<uiVars, SystemInstruction, itemsUsed>>

EngineRespond(t) ==
    /\ tasks[t].pc = "respond" /\ ~Blocked(t)
    /\ Step(t, Responded(tasks[t]))
    /\ UNCHANGED <<uiVars, SystemInstruction, itemsUsed>>

\* the context's deadline (conversationTimeout after line 29) passes while
\* the engine is blocked in a stream read or runs a tool handler; the code
\* looks at the context nowhere else
Deadline(t) ==
    /\ tasks[t].pc \in {"loop", "exec"}
    /\ ~tasks[t].expired
    /\ CanChoose
    /\ itemsUsed' = itemsUsed + 1
    /\ Step(t, [tasks[t] EXCEPT !.expired = TRUE, !.expiredIn = tasks[t].pc])
    /\ UNCHANGED <<uiVars, SystemInstruction>>

GoroutineFinish(t) ==
    /\ tasks[t].pc = "returned"
    /\ Step(t, Finished(tasks[t]))
    /\ UNCHANGED <<uiVars, SystemInstruction, itemsUsed>>

GoroutineFinal(t) ==
    /\ tasks[t].pc = "final" /\ ~Blocked(t)
    /\ Step(t, Final(tasks[t]))
    /\ UNCHANGED <<uiVars, SystemInstruction, itemsUsed>>

GoroutineClose(t) ==
    /\ tasks[t].pc = "close" /\ ~Blocked(t)
    /\ Step(t, Closed(tasks[t]))
    /\ UNCHANGED <<uiVars, SystemInstruction, itemsUsed>>

\* ------------------------------------------------------------- the channel
IsTerminal(m) == m.type \in {"ErrMsg", "SuccessMsg", "finalMsg"}

\* conversationStream.waitForNextMsg: the command's receive meets the
\* goroutine's send; the message then waits for Update
Receive(c) ==
    /\ BagIn(c, waiting)
    /\ Blocked(c)
    /\ pending' = pending \cup {tasks[c].sending}
    /\ waiting' = waiting (-) SetToBag({c})
    /\ Step(c, [tasks[c] EXCEPT
                  !.sending = NoMsg,
                  !.taken = IF tasks[c].sending.type = "StreamMsg" THEN @ + 1 ELSE @,
                  !.sent = IF IsTerminal(tasks[c].sending)
                           THEN Append(@, tasks[c].sending.type) ELSE @])
    /\ UNCHANGED <<Loading, TextInput, ConversationHistory, currentResponse,
                   stream, savedConversations, turns, SystemInstruction, itemsUsed,
                   configVars, fileVars, keyVars>>

\* ---------------------------------------------------------------- Model.Update
\* history.SaveSession: the conversations LoadSession finds in the file
\* afterwards. outcome is "ok", "create" (os.Create failed: the file is as
\* it was) or "encode" (the file was truncated by os.Create and the encoder
\* failed: nothing can be decoded from it)
Zero(field) ==
    CASE field = "Conversations" -> <<>>
      [] field = "ProjectInfo" -> "nil"
      [] OTHER -> 0

\* what LoadSession gives for a file that is missing or cannot be decoded;
\* main and SaveSession treat the nil session like one of zero values
NoSession == [field \in {"Conversations", "ProjectInfo", "HumorLevel"} |-> Zero(field)]

\* gob: Encode leaves the fields of zero value out of the stream
Encode(data) == [field \in {f \in DOMAIN data : data[f] # Zero(f)} |-> data[field]]

\* gob: Decode leaves a field the stream does not have at its zero value
Decode(bytes) ==
    [field \in DOMAIN NoSession |->
        IF field \in DOMAIN bytes THEN bytes[field] ELSE Zero(field)]

\* the session LoadSession decodes from the CB.hist file
File ==
    [Conversations |-> savedConversations,
     ProjectInfo |-> savedProjectInfo,
     HumorLevel |-> savedHumorLevel]

\* a SaveSession that stores the arguments it is given, whatever they are
SaveSessionOverwrites(file, history, projectInfo, humorLevel, outcome) ==
    CASE outcome = "ok" ->
            Decode(Encode([Conversations |-> history,
                           ProjectInfo |-> projectInfo,
                           HumorLevel |-> humorLevel]))
      [] outcome = "encode" -> NoSession
      [] OTHER -> file

SaveSession(file, history, projectInfo, humorLevel, outcome) ==
    CASE outcome = "ok" ->
            Decode(Encode([Conversations |-> history,
                           ProjectInfo |-> IF projectInfo # "nil"
                                           THEN projectInfo ELSE file.ProjectInfo,
                           HumorLevel |-> IF humorLevel > 0
                                          THEN humorLevel ELSE file.HumorLevel]))
      [] outcome = "encode" -> NoSession
      [] OTHER -> file

\* the CB.hist file after a save
Saved(file) ==
    /\ savedConversations' = file.Conversations
    /\ savedProjectInfo' = file.ProjectInfo
    /\ savedHumorLevel' = file.HumorLevel

\* an Enter handler without the Loading check of line 115
KeyEnterUnguarded ==
    /\ turns < MaxTurns
    /\ Loading' = TRUE
    /\ currentResponse' = <<>>
    /\ pending' = pending \cup {startConversationMsg(TextInput)}
    /\ turns' = turns + 1
    /\ UNCHANGED <<TextInput, ConversationHistory, stream, savedConversations,
                   waiting, tasks, SystemInstruction, itemsUsed,
                   configVars, fileVars, keyVars>>

\* tea.KeyMsg, KeyEnter (lines 114-123)
KeyEnter ==
    IF Loading
    THEN UNCHANGED vars
    ELSE /\ turns < MaxTurns
         /\ Loading' = TRUE
         /\ currentResponse' = <<>>
         /\ pending' = pending \cup {startConversationMsg(TextInput)}
         /\ turns' = turns + 1
         /\ UNCHANGED <<TextInput, ConversationHistory, stream, savedConversations,
                        waiting, tasks, SystemInstruction, itemsUsed,
                   configVars, fileVars, keyVars>>

\* tea.KeyMsg, a key TextInput.Update takes (line 162)
KeyRunes ==
    /\ Len(TextInput) < MaxInputLen
    /\ CanChoose
    /\ itemsUsed' = itemsUsed + 1
    /\ TextInput' = Append(TextInput, "x")
    /\ UNCHANGED <<Loading, ConversationHistory, currentResponse, stream,
                   savedConversations, pending, waiting, tasks, turns,
                   SystemInstruction,
                   configVars, fileVars, keyVars>>

\* tea.KeyMsg, a key of Keys.help (lines 106-108)
KeyHelp ==
    /\ CanChoose
    /\ itemsUsed' = itemsUsed + 1
    /\ ShowAll' = ~ShowAll
    /\ UNCHANGED <<Loading, TextInput, ConversationHistory, currentResponse,
                   stream, savedConversations, pending, waiting, tasks, turns,
                   SystemInstruction, configVars, fileVars, quit>>

\* tea.KeyMsg, a key of Keys.quit (lines 109-111) or KeyCtrlC, KeyEsc (lines
\* 124-125): the program ends
KeyQuit ==
    /\ CanChoose
    /\ itemsUsed' = itemsUsed + 1
    /\ quit' = TRUE
    /\ UNCHANGED <<Loading, TextInput, ConversationHistory, currentResponse,
                   stream, savedConversations, pending, waiting, tasks, turns,
                   SystemInstruction, configVars, fileVars, ShowAll>>

\* help.go, lines 31-38: the keys of the two bindings
HelpKeys == {"?"}
QuitKeys == {"q", "esc"}

\* tea.KeyMsg (lines 104-126, 161-162): what Update does with the key k
KeyMsg(k) ==
    CASE k \in HelpKeys -> KeyHelp
      [] k \in QuitKeys -> KeyQuit
      [] k = "enter" -> KeyEnter
      [] k \in {"ctrl+c", "esc"} -> KeyQuit
      [] k = "x" -> KeyRunes
      [] OTHER -> FALSE

\* a startConversationMsg handler that puts the user's entry into the history
\* when the turn starts
UpdateStartConversationAppends ==
    \E m \in pending :
        /\ m.type = "startConversationMsg"
        /\ pending' = pending \ {m}
        /\ tasks' = Append(tasks, NewTask(ConversationHistory, m.input))
        /\ stream' = Len(tasks) + 1
        /\ waiting' = waiting (+) SetToBag({Len(tasks) + 1})
        /\ ConversationHistory' = Append(ConversationHistory, m.input)
        /\ UNCHANGED <<Loading, TextInput, currentResponse,
                       savedConversations, turns, SystemInstruction, itemsUsed,
                   configVars, fileVars, keyVars>>

\* startConversationMsg (lines 128-130)
UpdateStartConversation ==
    \E m \in pending :
        /\ m.type = "startConversationMsg"
        /\ pending' = pending \ {m}
        /\ tasks' = Append(tasks, NewTask(ConversationHistory, m.input))
        /\ stream' = Len(tasks) + 1
        /\ waiting' = waiting (+) SetToBag({Len(tasks) + 1})
        /\ UNCHANGED <<Loading, TextInput, ConversationHistory, currentResponse,
                       savedConversations, turns, SystemInstruction, itemsUsed,
                   configVars, fileVars, keyVars>>

\* an ErrMsg handler that commits the failed turn like a completed one
UpdateErrMsgCommits ==
    \E m \in pending :
        /\ m.type = "ErrMsg"
        /\ pending' = pending \ {m}
        /\ Loading' = FALSE
        /\ currentResponse' = currentResponse \o <<"\nError: ", m.err>>
        /\ ConversationHistory' = ConversationHistory \o <<TextInput, <<m.err>>>>
        /\ Saved(SaveSession(File, ConversationHistory', ProjectInfo, HumorLevel, "ok"))
        /\ UNCHANGED <<TextInput, stream, waiting, tasks, turns,
                       SystemInstruction, itemsUsed, configVars, keyVars>>

\* ErrMsg (lines 132-136)
UpdateErrMsg ==
    \E m \in pending :
        /\ m.type = "ErrMsg"
        /\ pending' = pending \ {m}
        /\ Loading' = FALSE
        /\ currentResponse' = currentResponse \o <<"\nError: ", m.err>>
        /\ UNCHANGED <<TextInput, ConversationHistory, stream, savedConversations,
                       waiting, tasks, turns, SystemInstruction, itemsUsed,
                   configVars, fileVars, keyVars>>

\* SuccessMsg (lines 138-143)
UpdateSuccessMsg ==
    \E m \in pending :
        /\ m.type = "SuccessMsg"
        /\ pending' = pending \ {m}
        /\ ConversationHistory' = ConversationHistory \o <<TextInput, m.reply>>
        /\ \/ /\ Saved(SaveSession(File, ConversationHistory', ProjectInfo,
                                   HumorLevel, "ok"))
              /\ UNCHANGED itemsUsed
           \/ /\ CanChoose
              /\ \E outcome \in {"create", "encode"} :
                    Saved(SaveSession(File, ConversationHistory', ProjectInfo,
                                      HumorLevel, outcome))
              /\ itemsUsed' = itemsUsed + 1
        /\ TextInput' = <<>>
        /\ waiting' = waiting (+) SetToBag({stream})
        /\ UNCHANGED <<Loading, currentResponse, stream, tasks, turns,
                       SystemInstruction, configVars, keyVars>>

\* a StreamMsg handler that takes the first chunk for the end of the turn
UpdateStreamMsgClears ==
    \E m \in pending :
        /\ m.type = "StreamMsg"
        /\ pending' = pending \ {m}
        /\ currentResponse' = currentResponse \o m.Content
        /\ Loading' = FALSE
        /\ waiting' = waiting (+) SetToBag({stream})
        /\ UNCHANGED <<TextInput, ConversationHistory, stream,
                       savedConversations, tasks, turns, SystemInstruction, itemsUsed,
                   configVars, fileVars, keyVars>>

\* a StreamMsg handler that records the chunk in the history at once
UpdateStreamMsgCommits ==
    \E m \in pending :
        /\ m.type = "StreamMsg"
        /\ pending' = pending \ {m}
        /\ currentResponse' = currentResponse \o m.Content
        /\ ConversationHistory' = ConversationHistory \o <<TextInput, m.Content>>
        /\ waiting' = waiting (+) SetToBag({stream})
        /\ UNCHANGED <<Loading, TextInput, stream, savedConversations, tasks,
                       turns, SystemInstruction, itemsUsed,
                   configVars, fileVars, keyVars>>

\* a StreamMsg handler that asks for the next message twice
UpdateStreamMsgTwoWaits ==
    \E m \in pending :
        /\ m.type = "StreamMsg"
        /\ pending' = pending \ {m}
        /\ currentResponse' = currentResponse \o m.Content
        /\ waiting' = waiting (+) SetToBag({stream}) (+) SetToBag({stream})
        /\ UNCHANGED <<Loading, TextInput, ConversationHistory, stream,
                       savedConversations, tasks, turns, SystemInstruction, itemsUsed,
                   configVars, fileVars, keyVars>>

\* a StreamMsg handler that does not ask for the next message
UpdateStreamMsgNoWait ==
    \E m \in pending :
        /\ m.type = "StreamMsg"
        /\ pending' = pending \ {m}
        /\ currentResponse' = currentResponse \o m.Content
        /\ UNCHANGED <<Loading, TextInput, ConversationHistory, stream,
                       savedConversations, waiting, tasks, turns,
                       SystemInstruction, itemsUsed,
                   configVars, fileVars, keyVars>>

\* StreamMsg (lines 145-148)
UpdateStreamMsg ==
    \E m \in pending :
        /\ m.type = "StreamMsg"
        /\ pending' = pending \ {m}
        /\ currentResponse' = currentResponse \o m.Content
        /\ waiting' = waiting (+) SetToBag({stream})
        /\ UNCHANGED <<Loading, TextInput, ConversationHistory, stream,
                       savedConversations, tasks, turns, SystemInstruction, itemsUsed,
                   configVars, fileVars, keyVars>>

\* finalMsg (lines 150-153)
UpdateFinalMsg ==
    \E m \in pending :
        /\ m.type = "finalMsg"
        /\ pending' = pending \ {m}
        /\ Loading' = FALSE
        /\ UNCHANGED <<TextInput, ConversationHistory, currentResponse, stream,
                       savedConversations, waiting, tasks, turns,
                       SystemInstruction, itemsUsed,
                   configVars, fileVars, keyVars>>

\* ------------------------------------------------------------ specification
\* strconv.Atoi on the values of the variable the sessions here run with
AtoiFails(str) == str \notin {"20", "50"}
Atoi(str) == CASE str = "20" -> 20 [] str = "50" -> 50 [] OTHER -> 0

\* config.GetConfig: the humor level after loadFromEnvironment (config.go,
\* lines 44, 121, 149-153)
GetConfig(e) == IF e # "" /\ ~AtoiFails(e) THEN Atoi(e) ELSE 0

\* main (part_008, lines 57-131): the model's fields and the CB.hist file
\* when the TUI starts, for the value e of the environment variable, the
\* session file decodes to and the outcome of the project analysis
main(e, file, analysis) ==
    LET cfgLevel == IF file.HumorLevel > 0 THEN file.HumorLevel ELSE GetConfig(e)
        analysed == file.ProjectInfo = "nil" /\ analysis = "ok"
        info == IF analysed THEN "info" ELSE file.ProjectInfo
    IN  [HumorLevel |-> cfgLevel,
         ProjectInfo |-> info,
         ConversationHistory |-> file.Conversations,
         file |-> IF analysed
                  THEN SaveSession(file, file.Conversations, info, cfgLevel, "ok")
                  ELSE file]

\* the program starts: main has run with e, file and analysis
Started_main(e, file, analysis) ==
    LET m == main(e, file, analysis)
    IN  /\ env = e
        /\ HumorLevel = m.HumorLevel
        /\ ProjectInfo = m.ProjectInfo
        /\ ConversationHistory = m.ConversationHistory
        /\ savedConversations = m.file.Conversations
        /\ savedProjectInfo = m.file.ProjectInfo
        /\ savedHumorLevel = m.file.HumorLevel
        /\ Loading = FALSE
        /\ TextInput = <<>>
        /\ currentResponse = <<>>
        /\ stream = 0
        /\ SystemInstruction = FALSE
        /\ pending = {}
        /\ waiting = EmptyBag
        /\ tasks = <<>>
        /\ turns = 0
        /\ itemsUsed = 0
        /\ quit = FALSE
        /\ ShowAll = FALSE

\* a first session: no CB.hist file, the variable unset, the project analysed
Init == Started_main("", NoSession, "ok")

Engine(t) ==
    \/ EngineStart(t)
    \/ EngineNextDone(t)
    \/ EngineNextError(t)
    \/ EngineNextResponse(t)
    \/ EngineLoopExhausted(t)
    \/ EngineContinueParts(t)
    \/ EngineExecute(t)
    \/ EngineToolOutput(t)
    \/ EngineRespond(t)
    \/ GoroutineFinish(t)
    \/ GoroutineFinal(t)
    \/ GoroutineClose(t)

Update ==
    \/ UpdateStartConversation
    \/ UpdateErrMsg
    \/ UpdateSuccessMsg
    \/ UpdateStreamMsg
    \/ UpdateFinalMsg

\* after tea.Quit the program has ended: nothing of it takes a step
Next ==
    \/ ~quit /\ KeyEnter
    \/ ~quit /\ KeyRunes
    \/ ~quit /\ KeyHelp
    \/ ~quit /\ KeyQuit
    \/ ~quit /\ Update
    \/ ~quit /\ \E c \in DOMAIN tasks : Receive(c)
    \/ ~quit /\ \E t \in DOMAIN tasks : Engine(t)
    \/ ~quit /\ \E t \in DOMAIN tasks : Deadline(t)

Spec == Init /\ [][Next]_vars

\* main: a session that finds a CB.hist file starts with the conversation
\* list LoadSession decoded from it, whatever its length
LoadedHistories ==
    {[k \in 1..n |-> <<ToString(k)>>] : n \in 0..MaxLoaded}

LoadedInit ==
    \E history \in LoadedHistories :
        Started_main("", [Conversations |-> history, ProjectInfo |-> "info",
                          HumorLevel |-> 0], "ok")

\* the sessions main can start: the variable unset, not a number or a
\* number, the file missing or left by an earlier session, the analysis
\* done or failed
StartEnvs == {"", "abc", "50"}
StartFiles ==
    {[Conversations |-> <<>>, ProjectInfo |-> info, HumorLevel |-> level] :
        info \in {"nil", "info"}, level \in {0, 20}}

StartInit ==
    \E e \in StartEnvs, file \in StartFiles, analysis \in {"ok", "fail"} :
        Started_main(e, file, analysis)

StartSpec == StartInit /\ [][Next]_vars

LoadedSpec == LoadedInit /\ [][Next]_vars

\* history.SaveSession called with any arguments on any CB.hist file: the
\* file an earlier session left, and the history, project and humor level
\* of the caller
SaveFiles ==
    {[Conversations |-> old, ProjectInfo |-> info, HumorLevel |-> level] :
        old \in {<<>>, << <<"old">> >>}, info \in {"nil", "info"}, level \in {0, 20}}

SaveInit ==
    /\ \E file \in SaveFiles :
          /\ savedConversations = file.Conversations
          /\ savedProjectInfo = file.ProjectInfo
          /\ savedHumorLevel = file.HumorLevel
    /\ ConversationHistory \in LoadedHistories
    /\ ProjectInfo \in {"nil", "new"}
    /\ HumorLevel \in {0, 20, 50}
    /\ env = ""
    /\ Loading = FALSE
    /\ TextInput = <<>>
    /\ currentResponse = <<>>
    /\ stream = 0
    /\ SystemInstruction = FALSE
    /\ pending = {}
    /\ waiting = EmptyBag
    /\ tasks = <<>>
    /\ turns = 0
    /\ itemsUsed = 0
    /\ quit = FALSE
    /\ ShowAll = FALSE

SaveCall(outcome) ==
    /\ Saved(SaveSession(File, ConversationHistory, ProjectInfo, HumorLevel, outcome))
    /\ UNCHANGED <<Loading, TextInput, ConversationHistory, currentResponse,
                   stream, SystemInstruction, pending, waiting, tasks, turns,
                   itemsUsed, configVars, keyVars>>

SaveNext == \E outcome \in {"ok", "create", "encode"} : SaveCall(outcome)

SaveSpec == SaveInit /\ [][SaveNext]_vars

\* Go schedules every runnable goroutine and Bubble Tea handles every
\* delivered message: no engine step, receive or Update stays enabled forever
FairSpec ==
    /\ Spec
    /\ WF_vars(~quit /\ \E t \in DOMAIN tasks : Engine(t))
    /\ WF_vars(~quit /\ \E c \in DOMAIN tasks : Receive(c))
    /\ WF_vars(~quit /\ Update)


\* ------------------------------------------------------------------ claims
\* C1: in one ContinueConversation call iter.Next is called at most
\* maxLoopIterations times, whatever the model streams, a tool call on every
\* read included.
C1_NextCallsBounded ==
    \A t \in DOMAIN tasks : tasks[t].nextCalls <= maxLoopIterations

\* a call that read maxLoopIterations times and ran a tool after every read
C1_Witness ==
    \E t \in DOMAIN tasks :
        /\ tasks[t].nextCalls = maxLoopIterations
        /\ tasks[t].toolCalls >= maxLoopIterations
        /\ tasks[t].exit = "bound"

\* C2: with the goroutines scheduled and the messages handled, every turn
\* that started ends as long as the program runs: Loading falls back to
\* FALSE, and every goroutine that was spawned leaves ContinueConversation
\* and closes its channel.
C2_TurnEnds ==
    /\ Loading ~> (~Loading \/ quit)
    /\ \A t \in 1..MaxTurns :
          (t \in DOMAIN tasks) ~>
              (quit \/ (t \in DOMAIN tasks /\ tasks[t].pc = "done"))

\* a turn has run to its end and the UI is idle again
C2_Witness ==
    /\ ~Loading
    /\ pending = {}
    /\ turns >= 1
    /\ \E t \in DOMAIN tasks : tasks[t].pc = "done" /\ stream = t

\* C3: Enter while Loading changes nothing: no startConversationMsg, no
\* goroutine, and ConversationHistory, currentResponse and Loading stay.
C3_EnterWhileLoadingIsNoOp ==
    [][(Loading /\ KeyEnter) =>
          UNCHANGED <<Loading, ConversationHistory, currentResponse, pending,
                      tasks, stream, waiting, turns>>]_vars

\* a turn in flight with text in the display buffer, where one more submit
\* would be accepted if Loading did not guard it
C3_Witness ==
    /\ Loading
    /\ currentResponse # <<>>
    /\ turns < MaxTurns
    /\ \E t \in DOMAIN tasks : tasks[t].pc \in {"loop", "parts", "exec", "respond"}

\* C4: at most one goroutine has its terminal message (ErrMsg, or finalMsg
\* after SuccessMsg) still to hand over: a goroutine is spawned only after
\* the one before it did.
InProgress(t) ==
    /\ tasks[t].pc # "done"
    /\ tasks[t].pc = "close" => Blocked(t)

C4_AtMostOneTask ==
    Cardinality({t \in DOMAIN tasks : InProgress(t)}) <= 1

\* the second goroutine runs while the first, its messages sent, has not yet
\* closed its channel
C4_Witness ==
    /\ Len(tasks) = 2
    /\ tasks[1].pc = "close"
    /\ tasks[2].pc = "exec"

\* C5: a read error other than iterator.Done ends the call at once with that
\* error and no reply: the engine is out of the loop in the very step the
\* read failed, and the goroutine sends exactly one ErrMsg and nothing else.
C5_StreamErrorAborts ==
    \A t \in DOMAIN tasks :
        LET r == tasks[t]
        IN /\ r.exit \in {"transport", "deadline"} =>
                 /\ r.pc = "returned"
                 /\ r.err = StreamError(r.exit)
                 /\ r.reply = <<>>
           /\ r.err # NoError =>
                 \/ r.pc = "returned" /\ r.sent = <<>>
                 \/ r.pc = "close" /\ r.sending = ErrMsg(r.err) /\ r.sent = <<>>
                 \/ r.pc \in {"close", "done"} /\ r.sending = NoMsg /\ r.sent = <<"ErrMsg">>
           /\ r.err = NoError => "ErrMsg" \notin {r.sent[k] : k \in DOMAIN r.sent}

\* a turn whose read broke: the goroutine is gone, one
\* ErrMsg was taken and the UI showed it
C5_Witness ==
    \E t \in DOMAIN tasks :
        /\ tasks[t].pc = "done"
        /\ tasks[t].err = StreamError("transport")
        /\ tasks[t].sent = <<"ErrMsg">>
        /\ stream = t
        /\ ~Loading
        /\ pending = {}

\* C6: a read that fails because the deadline passed is a soft truncation:
\* the call returns the text accumulated so far (the fallback sentence when
\* there is none) and no error.
C6_DeadlineIsSoftTruncation ==
    \A t \in DOMAIN tasks :
        tasks[t].exit = "deadline" =>
            /\ tasks[t].err = NoError
            /\ tasks[t].reply = IF tasks[t].hasResponded
                                THEN tasks[t].responseBuilder ELSE FallbackReply

\* C7: a loop that runs out of iterations returns the accumulated text (the
\* fallback sentence when there is none) and a nil error, and the goroutine
\* sends SuccessMsg, not ErrMsg.
C7_BoundIsSoftTruncation ==
    \A t \in DOMAIN tasks :
        LET r == tasks[t]
        IN r.exit = "bound" =>
              /\ r.pc = "returned"
              /\ r.err = NoError
              /\ r.reply = IF r.hasResponded THEN r.responseBuilder ELSE FallbackReply
              /\ Finished(r).sending = SuccessMsg(r.reply)

\* the loop ran out with text accumulated on every iteration
C7_Witness ==
    \E t \in DOMAIN tasks :
        /\ tasks[t].exit = "bound"
        /\ tasks[t].hasResponded
        /\ Len(tasks[t].reply) = maxLoopIterations

\* C8: a tool that fails never ends the call: the only errors the call
\* returns are read errors, every Execute is followed by a "Tool Output"
\* event and by a tool response, and "Tool Error" is only an extra event.
C8_ToolFailureIsRecoverable ==
    \A t \in DOMAIN tasks :
        LET r == tasks[t]
        IN /\ r.err \in {NoError, StreamError("transport"), StreamError("deadline")}
           /\ r.exit # "tool"
           /\ r.toolOutputs = r.toolCalls - (IF r.pc = "output" THEN 1 ELSE 0)
           /\ r.responses = r.toolCalls - (IF r.pc \in {"output", "respond"} THEN 1 ELSE 0)
           /\ r.pc = "output" => r.result.err # NoError

\* a tool failed, its response went back to the model, and the loop read on
\* to a clean end of the stream
C8_Witness ==
    \E t \in DOMAIN tasks :
        /\ tasks[t].result.err # NoError
        /\ tasks[t].toolCalls >= 1
        /\ tasks[t].responses = tasks[t].toolCalls
        /\ tasks[t].toolOutputs = tasks[t].toolCalls
        /\ tasks[t].exit = "done"
        /\ tasks[t].err = NoError

\* C9: the response sent for a failed tool call carries the error: it
\* differs from the response of a call of the same tool that succeeded with
\* the same output.
C9_ToolErrorInPayload ==
    \A t \in DOMAIN tasks :
        LET r == tasks[t]
        IN (r.pc = "loop" /\ r.toolCalls >= 1 /\ r.responses = r.toolCalls
            /\ r.result.err # NoError) =>
              r.response # FunctionResponse(r.call.Name, Result(r.result.output, NoError))

\* C10: the SuccessMsg handler appends exactly the input the turn's engine
\* call was given and then the reply, whatever was typed meanwhile.
C10_CommitPairsSubmittedInput ==
    [][UpdateSuccessMsg =>
          \E m \in pending :
              /\ m.type = "SuccessMsg"
              /\ ConversationHistory' =
                     ConversationHistory \o <<tasks[stream].input, m.reply>>]_vars

\* C11: the ErrMsg handler sets Loading to FALSE and leaves the history in
\* memory and in the file alone; the history is then still the snapshot the
\* failed call was given, and nothing changes it once the call has failed.
C11_ErrorLeavesHistory ==
    [][/\ UpdateErrMsg =>
            /\ Loading' = FALSE
            /\ UNCHANGED <<ConversationHistory, savedConversations>>
            /\ tasks[stream].pc # "done" =>
                   ConversationHistory' = tasks[stream].history
       /\ (stream \in DOMAIN tasks /\ tasks[stream].err # NoError) =>
            UNCHANGED <<ConversationHistory, savedConversations>>]_vars

\* the second turn failed after the first was committed and saved: the UI is
\* idle with the first turn's pair as its whole history
C11_Witness ==
    /\ ~Loading
    /\ pending = {}
    /\ stream = 2
    /\ tasks[2].sent = <<"ErrMsg">>
    /\ Len(ConversationHistory) = 2
    /\ savedConversations = ConversationHistory

\* C12: the history in memory and the history in the file always have even
\* length, and the history only grows by one (user, model) pair at a time:
\* there is never a trailing user entry without its reply.
C12_HistoryAlternates ==
    /\ [](Len(ConversationHistory) % 2 = 0 /\ Len(savedConversations) % 2 = 0)
    /\ [][ConversationHistory' # ConversationHistory =>
              /\ Len(ConversationHistory') = Len(ConversationHistory) + 2
              /\ SubSeq(ConversationHistory', 1, Len(ConversationHistory)) = ConversationHistory
              /\ savedConversations' \in {savedConversations, ConversationHistory', <<>>}]_vars

\* two turns were committed and saved
C12_Witness ==
    /\ Len(ConversationHistory) = 4
    /\ savedConversations = ConversationHistory

\* C13: only the SuccessMsg handler changes the history, and by then the
\* turn's ContinueConversation call has returned; while a call runs, the
\* history it was given is the history the UI holds.
EngineRunning(t) ==
    tasks[t].pc \in {"start", "loop", "parts", "exec", "output", "respond", "returned"}

C13_HistoryOwnedByUI ==
    /\ [](\A t \in DOMAIN tasks :
             EngineRunning(t) => tasks[t].history = ConversationHistory)
    /\ [][ConversationHistory' # ConversationHistory =>
              /\ UpdateSuccessMsg
              /\ \A t \in DOMAIN tasks : ~EngineRunning(t)
              /\ tasks' = tasks]_vars

\* the engine of the second turn runs a tool on the snapshot that holds the
\* first turn's pair
C13_Witness ==
    \E t \in DOMAIN tasks :
        /\ tasks[t].pc = "respond"
        /\ Len(tasks[t].history) = 2
        /\ tasks[t].history = ConversationHistory

\* C14: what a goroutine hands over ends with exactly one outcome, ErrMsg
\* or SuccessMsg (with its finalMsg), never both; once the outcome is taken
\* no StreamMsg follows; and every goroutine gets there as long as the
\* program runs.
C14_OneTerminalOutcome ==
    /\ [](\A t \in DOMAIN tasks :
             LET r == tasks[t]
             IN /\ r.sent \in {<<>>, <<"ErrMsg">>, <<"SuccessMsg">>,
                                <<"SuccessMsg", "finalMsg">>}
                /\ r.sent # <<>> => /\ r.pc \in {"final", "close", "done"}
                                    /\ r.sending \in {NoMsg, finalMsg}
                /\ r.sent = <<"ErrMsg">> => r.sending = NoMsg /\ r.pc # "final"
                /\ r.pc = "done" => Len(r.sent) >= 1 /\ r.sent # <<"SuccessMsg">>)
    /\ \A t \in 1..MaxTurns :
          (t \in DOMAIN tasks) ~>
              (quit \/ (t \in DOMAIN tasks /\
                        tasks[t].sent \in {<<"ErrMsg">>, <<"SuccessMsg", "finalMsg">>}))

\* one turn ended with SuccessMsg and finalMsg, the next with ErrMsg
C14_Witness ==
    /\ Len(tasks) = 2
    /\ tasks[1].sent = <<"SuccessMsg", "finalMsg">>
    /\ tasks[2].sent = <<"ErrMsg">>
    /\ tasks[2].pc = "done"

\* C15: a channel is closed only by its goroutine's last step, after ErrMsg
\* or after SuccessMsg and finalMsg were taken; a goroutine that closed its
\* channel offers nothing and takes no further step, so it neither sends on
\* the closed channel nor closes it again.
C15_ClosedOnceAfterTerminal ==
    /\ [](\A t \in DOMAIN tasks :
             /\ tasks[t].closed =>
                    /\ tasks[t].pc = "done"
                    /\ tasks[t].sending = NoMsg
                    /\ tasks[t].sent \in {<<"ErrMsg">>, <<"SuccessMsg", "finalMsg">>}
             /\ tasks[t].pc = "done" => tasks[t].closed)
    /\ [][\A t \in DOMAIN tasks : tasks[t].closed => tasks'[t] = tasks[t]]_vars

\* the channel is closed while the finalMsg taken from it still waits for
\* Update
C15_Witness ==
    \E t \in DOMAIN tasks :
        /\ tasks[t].closed
        /\ tasks[t].sent = <<"SuccessMsg", "finalMsg">>
        /\ finalMsg \in pending
        /\ Loading

\* C16: between the goroutines and Update at most one thing is in flight: a
\* waitForNextMsg command blocked on the current channel, or one message
\* taken from it and not yet handled. When Update handles a channel message
\* it is the only one pending and no receive is outstanding, so no later
\* message of the turn can have overtaken it.
ChannelMsgs == {m \in pending : m.type # "startConversationMsg"}

C16_OneReceiveInOrder ==
    /\ [](/\ BagCardinality(waiting) + Cardinality(ChannelMsgs) <= 1
          /\ \A c \in BagToSet(waiting) : c = stream)
    /\ [][(UpdateStreamMsg \/ UpdateSuccessMsg \/ UpdateErrMsg \/ UpdateFinalMsg) =>
              /\ Cardinality(pending) = 1
              /\ waiting = EmptyBag]_vars

\* a "Tool Output" message waits for Update while the goroutine is already
\* blocked in its next send, which nothing can take yet
C16_Witness ==
    /\ stream \in DOMAIN tasks
    /\ Blocked(stream)
    /\ waiting = EmptyBag
    /\ \E m \in pending : m.type = "StreamMsg" /\ m.Title = "Tool Output"

\* C17: when the model asks for list_files and then says "Done.", and the
\* listing is "a.txt\nb.txt", the call returns "Done." and the events sent on
\* the channel before the SuccessMsg of "Done." are exactly "Tool Call",
\* "Tool Output" with the listing, and "Response" with "Done.".
Titles(emitted) == [k \in DOMAIN emitted |-> emitted[k].Title]

C17_EndToEndListFiles ==
    \A t \in DOMAIN tasks :
        LET r == tasks[t]
        IN (r.pc = "returned" /\ r.scripted /\ r.script = <<>> /\ r.exit = "done") =>
              /\ r.err = NoError
              /\ r.reply = <<"Done.">>
              /\ Finished(r).sending = SuccessMsg(<<"Done.">>)
              /\ Titles(r.emitted) = <<"Tool Call", "Tool Output", "Response">>
              /\ r.emitted[2].Content = <<"a.txt", "\n", "b.txt">>
              /\ r.emitted[3].Content = <<"Done.">>

\* C18: a call that returns no error never returns the empty string: when
\* no text was accumulated the reply is the fallback sentence.
C18_ReplyNeverEmpty ==
    \A t \in DOMAIN tasks :
        LET r == tasks[t]
        IN (r.pc = "returned" /\ r.err = NoError) =>
              /\ r.reply # <<>>
              /\ r.responseBuilder = <<>> => r.reply = FallbackReply

\* C19: when the deadline passes while a tool handler runs, the call returns
\* the text accumulated so far (the fallback sentence when there is none)
\* and no error, and the goroutine sends SuccessMsg.
C19_DeadlineDuringTool ==
    \A t \in DOMAIN tasks :
        LET r == tasks[t]
        IN (r.expiredIn = "exec" /\ r.pc = "returned" /\ r.iterDead) =>
              /\ r.err = NoError
              /\ r.reply = IF r.hasResponded THEN r.responseBuilder ELSE FallbackReply
              /\ Finished(r).sending.type = "SuccessMsg"

\* C20: Execute of a name that is not in the registry returns the unknown
\* function error with no output and does nothing else: no file is written
\* or removed, no process is spawned, no project is cached.
C20_UnknownToolNoEffect ==
    \A t \in DOMAIN tasks :
        LET r == tasks[t]
        IN (r.toolCalls = 1 /\ r.pc \in {"output", "respond", "loop", "returned"}
            /\ r.call.Name \notin Registry) =>
              /\ r.result = Result(<<>>, "unknown function call")
              /\ r.effects = {}

\* bogus_tool was executed and answered, and the loop is back at its head
C20_Witness ==
    \E t \in DOMAIN tasks :
        /\ tasks[t].call.Name = "bogus_tool"
        /\ tasks[t].toolCalls = 1
        /\ tasks[t].responses = 1
        /\ tasks[t].pc = "loop"

\* C21: a call of a tool that lacks one of the tool's required arguments, or
\* holds it as something else than a string, returns an invalid-arguments
\* error without output, and the handler does nothing: no file is written or
\* removed, no process spawned, no project analysed.
InvalidArguments ==
    {"invalid arguments", "invalid or missing arguments",
     "invalid or missing 'command' argument", "invalid or missing 'path' argument"}

C21_MissingArgumentNoEffect ==
    \A t \in DOMAIN tasks :
        LET r == tasks[t]
        IN (r.toolCalls = 1 /\ r.pc \in {"output", "respond", "loop", "returned"}
            /\ \E k \in RequiredArgs(r.call.Name) : ~IsStr(r.call.Args, k)) =>
              /\ r.result.err \in InvalidArguments
              /\ r.result.output = <<>>
              /\ r.effects = {}

\* generate_code was called without a name: the call was executed and
\* answered, and the loop is back at its head
C21_Witness ==
    \E t \in DOMAIN tasks :
        /\ tasks[t].call.Name = "generate_code"
        /\ ~IsStr(tasks[t].call.Args, "name")
        /\ tasks[t].toolCalls = 1
        /\ tasks[t].responses = 1
        /\ tasks[t].pc = "loop"

\* C22: for a history of n entries the chat session gets ceil(n/2) pairs in
\* order: a user content with entry 2i and a model content with entry 2i+1
\* (counting from 0), the model text of the last pair empty when n is odd.
C22_PairsOfHistory ==
    \A t \in DOMAIN tasks :
        LET r == tasks[t]
            n == Len(r.history)
            pairs == (n + 1) \div 2
        IN r.pc \in {"loop", "parts", "exec", "output", "respond", "returned"} =>
              /\ Len(r.contents) = 2 * pairs
              /\ \A i \in 0..(pairs - 1) :
                    /\ r.contents[2 * i + 1] = Content("user", r.history[2 * i + 1])
                    /\ r.contents[2 * i + 2] =
                          Content("model", IF 2 * i + 2 <= n
                                           THEN r.history[2 * i + 2] ELSE <<>>)

\* a call runs on a history of three entries, the one loaded and the pair of
\* the turn before: two pairs, the second with an empty model text
C22_Witness ==
    \E t \in DOMAIN tasks :
        /\ tasks[t].pc = "loop"
        /\ Len(tasks[t].history) = 3
        /\ Len(tasks[t].contents) = 4
        /\ tasks[t].contents[4] = Content("model", <<>>)

\* C23: the file follows the history: a commit whose save succeeds leaves
\* the file's list equal to the history, and the file's list is always a
\* prefix of the history that lacks one turn (two entries) at most.
IsPrefix(s, t) == Len(s) <= Len(t) /\ SubSeq(t, 1, Len(s)) = s

C23_SavedFollowsHistory ==
    /\ [](/\ IsPrefix(savedConversations, ConversationHistory)
          /\ Len(ConversationHistory) - Len(savedConversations) <= 2)
    /\ [][(UpdateSuccessMsg /\ itemsUsed' = itemsUsed) =>
              savedConversations' = ConversationHistory']_vars

\* C24: a command whose first word is not in the allowlist, and a command
\* that is empty or only white space, is rejected with an error and no
\* process is spawned for it.
C24_AllowlistGuardsSpawn ==
    \A t \in DOMAIN tasks :
        LET r == tasks[t]
        IN (r.toolCalls = 1 /\ r.pc \in {"output", "respond", "loop", "returned"}
            /\ r.call.Name = "execute_shell_command"
            /\ IsStr(r.call.Args, "command")) =>
              LET parts == Fields(r.call.Args["command"].str)
              IN (parts = <<>> \/ Head(parts) \notin AllowedCommands) =>
                    /\ r.result.err # NoError
                    /\ "spawn" \notin r.effects

\* C25: Loading becomes TRUE only by an accepted Enter, which starts a turn,
\* and FALSE only when Update handles the ErrMsg or the finalMsg of that
\* turn, whose goroutine has by then handed over its outcome; a StreamMsg, a
\* SuccessMsg, a key typed, a start or a receive leaves Loading alone.
C25_LoadingClearedByTerminal ==
    [][/\ (~Loading /\ Loading') => (KeyEnter /\ turns' = turns + 1)
       /\ (Loading /\ ~Loading') =>
             /\ UpdateErrMsg \/ UpdateFinalMsg
             /\ stream = turns
             /\ tasks[stream].sent \in {<<"ErrMsg">>, <<"SuccessMsg", "finalMsg">>}
       /\ (UpdateStreamMsg \/ UpdateSuccessMsg \/ UpdateStartConversation \/ KeyRunes
           \/ \E c \in DOMAIN tasks : Receive(c)) => UNCHANGED Loading]_vars

\* a turn was completed after its chunks were shown, its pair was committed
\* by the SuccessMsg handler, and its finalMsg has ended it
C25_Witness ==
    /\ ~Loading
    /\ stream = turns
    /\ stream \in DOMAIN tasks
    /\ tasks[stream].sent = <<"SuccessMsg", "finalMsg">>
    /\ currentResponse # <<>>
    /\ Len(ConversationHistory) = 2
    /\ pending = {}

\* C26: of the "Response" events one call emits, no two in a row carry the
\* same text, whatever lies between them, and the text of the last one is
\* the text a later fragment must differ from to be emitted.
Responses(emitted) == SelectSeq(emitted, LAMBDA m : m.Title = "Response")

C26_NoRepeatedChunk ==
    \A t \in DOMAIN tasks :
        LET chunks == Responses(tasks[t].emitted)
        IN /\ \A k \in 1..(Len(chunks) - 1) : chunks[k].Content # chunks[k + 1].Content
           /\ chunks # <<>> => tasks[t].lastTextChunk = chunks[Len(chunks)].Content
           /\ chunks = <<>> => tasks[t].lastTextChunk = <<>>

\* the model sent the same text three times, with tool calls in between: the
\* text was emitted once
C26_Witness ==
    \E t \in DOMAIN tasks :
        /\ tasks[t].responseBuilder = <<"a", "a", "a">>
        /\ Len(Responses(tasks[t].emitted)) = 1
        /\ tasks[t].toolCalls >= 2

\* C27: the system instruction is attached by the start of a call exactly
\* when the call's history is empty, and in a session at most once: by the
\* first turn, never by a later one, whether the turns before failed or not.
C27_InstructionAttachedOnce ==
    [][\A t \in DOMAIN tasks :
          (EngineStart(t) /\ Len(tasks[t].history) = 0) =>
              /\ SystemInstruction'
              /\ ~SystemInstruction
              /\ t = 1]_vars

\* C28: the Enter that starts a turn sets Loading, empties the display
\* buffer and empties the input box, all in the one step: the box is empty
\* before any message of the turn is handled.
C28_SubmitClearsInput ==
    [][(~Loading /\ KeyEnter) =>
          /\ Loading'
          /\ currentResponse' = <<>>
          /\ TextInput' = <<>>]_vars

\* C29: a send on the channel blocks until a receive meets it: of the events
\* a call has emitted, all but the one it is blocked in have been taken, and
\* while it is blocked the goroutine does nothing but hand that event over
\* (its deadline may pass meanwhile).
C29_SendBlocksProducer ==
    /\ [](\A t \in DOMAIN tasks :
             LET r == tasks[t]
                 offered == IF r.sending.type = "StreamMsg" THEN 1 ELSE 0
             IN /\ Len(r.emitted) - r.taken = offered
                /\ offered = 1 => r.sending = r.emitted[Len(r.emitted)])
    /\ [][\A t \in DOMAIN tasks :
             Blocked(t) => (tasks'[t] = tasks[t] \/ Receive(t) \/ Deadline(t))]_vars

\* the call is blocked in its fourth event while the third, taken from the
\* channel, still waits for Update
C29_Witness ==
    \E t \in DOMAIN tasks :
        /\ Len(tasks[t].emitted) = 4
        /\ tasks[t].taken = 3
        /\ Blocked(t)
        /\ tasks[t].emitted[3] \in pending

\* C31: every tool call goes through the same steps in the same order: the
\* "Tool Call" event, Execute of the call just announced, the "Tool Output"
\* event (after "Tool Error" when it failed), then one response that bears
\* the call's name; only then is the next part looked at or the stream read.
\* So two calls never overlap, and they run in the order of the parts.
ToolEvents(emitted) ==
    SelectSeq(emitted, LAMBDA m : m.Title \in {"Tool Call", "Tool Error", "Tool Output"})

Count(emitted, title) == Len(SelectSeq(emitted, LAMBDA m : m.Title = title))

C31_ToolCallStepOrder ==
    /\ [](\A t \in DOMAIN tasks :
             LET r == tasks[t]
                 ev == ToolEvents(r.emitted)
             IN r.pc \in {"loop", "parts", "exec", "output", "respond", "returned"} =>
                  /\ Count(r.emitted, "Tool Call") =
                         r.toolCalls + (IF r.pc = "exec" THEN 1 ELSE 0)
                  /\ Count(r.emitted, "Tool Output") = r.toolOutputs
                  /\ \A k \in 1..Len(ev) :
                        /\ ev[k].Title = "Tool Call" /\ k < Len(ev) =>
                               ev[k + 1].Title \in {"Tool Error", "Tool Output"}
                        /\ ev[k].Title = "Tool Error" =>
                               k > 1 /\ ev[k - 1].Title = "Tool Call"
                        /\ ev[k].Title = "Tool Error" /\ k < Len(ev) =>
                               ev[k + 1].Title = "Tool Output"
                        /\ ev[k].Title = "Tool Output" =>
                               k > 1 /\ ev[k - 1].Title \in {"Tool Call", "Tool Error"}
                  /\ r.pc = "exec" =>
                        /\ ev[Len(ev)].Title = "Tool Call"
                        /\ ev[Len(ev)].Content[2] = r.call.Name
                  /\ r.pc = "respond" => ev[Len(ev)].Title = "Tool Output"
                  /\ r.pc \in {"loop", "parts", "returned"} =>
                        /\ r.responses = r.toolCalls
                        /\ r.toolOutputs = r.toolCalls
                        /\ r.toolCalls >= 1 => r.response.Name = r.call.Name)
    /\ [][\A t \in DOMAIN tasks :
             /\ tasks'[t].responses \in {tasks[t].responses, tasks[t].responses + 1, 0}
             /\ tasks'[t].nextCalls > tasks[t].nextCalls =>
                    tasks[t].responses = tasks[t].toolCalls]_vars

\* one response carried list_files and then read_file: list_files was run
\* and answered, and read_file, announced, is about to run
C31_Witness ==
    \E t \in DOMAIN tasks :
        /\ tasks[t].pc = "exec"
        /\ tasks[t].nextCalls = 1
        /\ tasks[t].toolCalls = 1
        /\ tasks[t].responses = 1
        /\ tasks[t].response.Name = "list_files"
        /\ tasks[t].call.Name = "read_file"

\* C32: one call dispatches at most maxLoopIterations tool calls, also when
\* a response of the model carries more than one.
C32_ToolCallsBounded ==
    \A t \in DOMAIN tasks : tasks[t].toolCalls <= maxLoopIterations

\* C34: update_file writes only where a file is: it creates none; and
\* create_file writes only where no file is: it replaces none.
C34_UpdateAndCreateDiffer ==
    \A t \in DOMAIN tasks :
        LET r == tasks[t]
        IN (r.toolCalls = 1 /\ r.pc \in {"output", "respond", "loop", "returned"}) =>
              /\ r.call.Name = "update_file" => "create" \notin r.effects
              /\ r.call.Name = "create_file" => "replace" \notin r.effects

\* C39: in the executor of a call the project and the generator are cached
\* together: one is set exactly when the other is, whatever was executed.
C39_CachedTogether ==
    \A t \in DOMAIN tasks :
        tasks[t].executor.generator = tasks[t].executor.projectInfo

\* analyze_project cached the project, and build_project ran on the cache
C39_Witness ==
    \E t \in DOMAIN tasks :
        /\ tasks[t].toolCalls = 2
        /\ tasks[t].call.Name = "build_project"
        /\ tasks[t].result.err = NoError
        /\ tasks[t].executor.projectInfo
        /\ tasks[t].executor.generator

\* C36: the reply a call returns, which the SuccessMsg handler commits, is
\* the "Response" texts the call emitted, put together in order, whenever
\* the call produced text.
RECURSIVE Concat(_)
Concat(chunks) ==
    IF chunks = <<>> THEN <<>> ELSE Head(chunks).Content \o Concat(Tail(chunks))

C36_ReplyIsWhatWasStreamed ==
    \A t \in DOMAIN tasks :
        LET r == tasks[t]
        IN (r.pc = "returned" /\ r.err = NoError /\ r.hasResponded) =>
              /\ r.reply = Concat(Responses(r.emitted))
              /\ Finished(r).sending = SuccessMsg(Concat(Responses(r.emitted)))

\* C33: when CONSOLE_AI_HUMOR_LEVEL is set to a valid integer, the turns of
\* the session run with that humor level, whatever the CB.hist file stores.
C33_EnvOverridesHumorLevel ==
    (turns >= 1 /\ env # "" /\ ~AtoiFails(env)) => HumorLevel = Atoi(env)

\* C37: a printable key other than '?', 'q' among them, is put into the
\* text input and never ends the program, while idle and while loading.
C37_PrintableKeysReachInput ==
    [][\A k \in {"x", "q"} :
          KeyMsg(k) => (~quit' /\ TextInput' = Append(TextInput, k))]_vars

\* C38: after a SaveSession that succeeds, LoadSession gives the history
\* that was saved; a save with a nil projectInfo leaves the stored
\* ProjectInfo as it was, and a save with humorLevel 0 leaves a stored
\* positive humor level as it was.
C38_SaveThenLoad ==
    [][SaveCall("ok") =>
          /\ savedConversations' = ConversationHistory
          /\ ProjectInfo = "nil" => savedProjectInfo' = savedProjectInfo
          /\ (HumorLevel = 0 /\ savedHumorLevel > 0) =>
                 savedHumorLevel' = savedHumorLevel]_vars

\* a history of one entry has been saved without a project and with humor
\* level 0 over a file that stores a project and the level 20
C38_Witness ==
    /\ savedConversations = ConversationHistory
    /\ Len(ConversationHistory) = 1
    /\ ProjectInfo = "nil" /\ savedProjectInfo = "info"
    /\ HumorLevel = 0 /\ savedHumorLevel = 20

\* the receive requests on channel c that are outstanding or that a handler
\* still to run will issue
Requests(c) ==
    CopiesIn(c, waiting) +
    (IF stream = c
     THEN Cardinality({m \in pending : m.type \in {"StreamMsg", "SuccessMsg"}})
     ELSE 0)

\* C35: the UI issues as many receive requests as the producer sends events:
\* until the last event of a turn is taken exactly one request is
\* outstanding or about to be issued, afterwards none, so nothing is read
\* from a closed channel; and as long as the program runs no send and no
\* receive request waits forever.
C35_BridgeBalanced ==
    /\ [](\A c \in DOMAIN tasks :
             /\ Requests(c) =
                   IF tasks[c].sent \in {<<"ErrMsg">>, <<"SuccessMsg", "finalMsg">>}
                   THEN 0 ELSE 1
             /\ tasks[c].pc = "done" => tasks[c].sending = NoMsg)
    /\ \A t \in 1..MaxTurns :
          /\ (t \in DOMAIN tasks /\ Blocked(t)) ~>
                 (quit \/ (t \in DOMAIN tasks /\ ~Blocked(t)))
          /\ BagIn(t, waiting) ~> (quit \/ ~BagIn(t, waiting))

\* the producer is blocked in the send of a chunk while the handler of the
\* chunk before it has not yet asked for the next message
C35_Witness ==
    \E c \in DOMAIN tasks :
        /\ Blocked(c)
        /\ tasks[c].sending.type = "StreamMsg"
        /\ tasks[c].taken >= 1
        /\ ~BagIn(c, waiting)
        /\ \E m \in pending : m.type = "StreamMsg"

====
